---- MODULE Spec2Model ----
(***************************************************************************)
(* PostgresService (txdav/base/datastore/subpostgres.py): a Twisted        *)
(* MultiService that runs PostgreSQL as a subprocess.                      *)
(*                                                                         *)
(* Every handler of the source is an operator from "world" records to      *)
(* "world" records, composed in the order the Deferred callback chains of  *)
(* the source compose them; an action of the model is one event delivered  *)
(* by the reactor (a call of startService/stopService, a chunk of stderr,  *)
(* a process exit) together with everything the handlers do synchronously  *)
(* in response.  A raised exception is the field "raised" of the world; it *)
(* travels along the errback chain exactly as a Failure does.              *)
(*                                                                         *)
(* Spec is one lifetime of the service: startService is called once.       *)
(* SpecRestart additionally lets the stopped instance be started again.    *)
(***************************************************************************)
EXTENDS Integers, Sequences, FiniteSets, TLC

\* ---------------------------------------------------------------- bounds
MaxStarts == 2      \* calls of startService on the instance (SpecRestart)
MaxStops == 2       \* calls of stopService on the instance
MaxChunks == 2      \* stderr chunks delivered to one start monitor
MaxHardStops == 2   \* calls of hardStop on the instance (SpecHardStop)

Starts == 1..MaxStarts

\* ------------------------------------------------------------ vocabulary
None == 0                       \* Python's None for ids and indices
NoStatus == -1                  \* a process that has not exited yet
ExitCodes == {0, 1}             \* exit status: zero / non-zero
Pids == {7}                     \* process ids pg_ctl status can print
StatusOutputs == {None} \cup Pids   \* None: no "PID: n" in the output

\* stderr of pg_ctl start as tokens: the ready cookie, or the delimiter
Cookie == "c"
Delimiter == "n"
\* the chunks the pipe may deliver: a whole line with the cookie, a line
\* cut before its delimiter, and the delimiter that completes a line
StderrChunks == { <<Cookie, Delimiter>>, <<Cookie>>, <<Delimiter>> }

\* output of initdb as tokens
Fatal == "FATAL:"
Text == "text"
InitTokens == {Fatal, Text}

\* What can go wrong inside one run of gotStatus:
\*   admin   - produceConnection("schema creation", "postgres") raises
\*   create  - "create database" fails although the database is absent
\*   conn    - produceConnection() for the new database raises
\*   exec    - cursor.execute(sqlToExecute) raises
\*   factory - subServiceFactory(...) raises
Faults ==
    { {}, {"admin"}, {"create"}, {"conn"}, {"exec"}, {"factory"},
      {"create", "factory"} }

Range(s) == { s[i] : i \in DOMAIN s }

\* importFileName and the file behind it, as ready() finds them
ImportFiles == {"none", "missing", "present"}

VARIABLES
    config,     \* constructor arguments: resetSchema
    svc,        \* fields of the PostgresService instance
    world,      \* file system and database engine
    chain,      \* per startService call: the start callback chain + monitor
    reqs,       \* per stopService call: the Deferred it returned
    readyLog,   \* effects of the latest run of ready(), in program order
    nStarts,    \* number of startService calls so far
    kills       \* what the calls of hardStop did

vars == <<config, svc, world, chain, reqs, readyLog, nStarts, kills>>

\* -------------------------------------------------------- world records
W ==
    [ svc |-> svc, world |-> world, chain |-> chain, reqs |-> reqs,
      readyLog |-> readyLog, kills |-> kills, raised |-> "none" ]

Commit(w) ==
    /\ svc' = w.svc
    /\ world' = w.world
    /\ chain' = w.chain
    /\ reqs' = w.reqs
    /\ readyLog' = w.readyLog
    /\ kills' = w.kills

Raise(w, exc) == [w EXCEPT !.raised = exc]

Raised(w) == w.raised # "none"

Log(w, e) == [w EXCEPT !.readyLog = Append(@, e)]

\* reactor.spawnProcess for one of the commands of a start chain
spawnProcess(w, k, cmd) == [w EXCEPT !.chain[k].spawned[cmd] = @ + 1]

\* ------------------------------------------------------ _PostgresMonitor
\* _PostgresMonitor.__init__
NewMonitor(hasSvc) ==
    [ hasSvc |-> hasSvc, isReady |-> FALSE, buffer |-> <<>>,
      readyCalls |-> 0, raised |-> FALSE ]

\* _PostgresMonitor.lineReceived: svc.ready() is called without the two
\* arguments ready() requires, so the call raises TypeError before the body
\* of ready() runs; isReady is never assigned.
lineReceived(m, line) ==
    IF ~m.hasSvc THEN m
    ELSE IF ~m.isReady
         THEN IF Cookie \in Range(line)
              THEN [m EXCEPT !.readyCalls = @ + 1, !.raised = TRUE]
              ELSE m
         ELSE m

HasLine(buf) == Delimiter \in Range(buf)

FirstDelimiter(buf) ==
    CHOOSE i \in DOMAIN buf :
        buf[i] = Delimiter /\ \A j \in 1..(i - 1) : buf[j] # Delimiter

\* LineReceiver.dataReceived on the already extended buffer: split off the
\* completed lines one by one; an exception of lineReceived leaves the loop
\* with the rest of the data still buffered.
RECURSIVE SplitLines(_)
SplitLines(m) ==
    IF ~HasLine(m.buffer) THEN m
    ELSE LET i == FirstDelimiter(m.buffer)
             line == SubSeq(m.buffer, 1, i - 1)
             rest == SubSeq(m.buffer, i + 1, Len(m.buffer))
             m1 == lineReceived([m EXCEPT !.buffer = rest], line)
         IN  IF m1.raised THEN m1 ELSE SplitLines(m1)

\* _PostgresMonitor.errReceived
errReceived(m, err) ==
    SplitLines([m EXCEPT !.buffer = @ \o err, !.raised = FALSE])

\* ---------------------------------------------- CapturingProcessProtocol
NewCapture == [output |-> <<>>, error |-> <<>>]

CaptureOutReceived(p, data) == [p EXCEPT !.output = @ \o data]

CaptureErrReceived(p, data) == [p EXCEPT !.output = @ \o data]

\* the string the Deferred is fired with; the exit status is not looked at
CaptureProcessEnded(p, status) == p.output

\* ------------------------------------------------------ ShutdownInterlock
activateDelayedShutdown(w) == [w EXCEPT !.svc.delayedShutdown = TRUE]

\* a plausible slip: the stop command is spawned whoever started postgres
superStopped_always(w, i) ==
    [w EXCEPT !.reqs[i].state = "stoppingEngine",
              !.reqs[i].stopSpawns = @ + 1]

\* superStopped, the callback of stopService, for the request i
superStopped(w, i) ==
    IF w.svc.shouldStopDatabase
    THEN [w EXCEPT !.reqs[i].state = "stoppingEngine",
                   !.reqs[i].stopSpawns = @ + 1]
    ELSE [w EXCEPT !.reqs[i].state = "done"]

\* MultiService.stopService(self) called for the request i: the service is
\* no longer running and every child service is asked to stop; with nothing
\* left to wait for, the result has fired when the call returns.
MultiServiceStop(w, i) ==
    LET stopping == [ j \in DOMAIN w.svc.services |->
                        IF w.svc.services[j] = "running" THEN "stopping"
                        ELSE w.svc.services[j] ]
        w1 == [w EXCEPT !.svc.running = FALSE,
                        !.svc.services = stopping,
                        !.reqs[i].depStops = @ + 1]
    IN  [w1 EXCEPT !.reqs[i].state =
            IF "stopping" \in Range(stopping) THEN "stoppingDeps"
            ELSE "depsStopped"]

\* a plausible slip: superStopped is called, not added as a callback
StopCallbacks_unchained(w, i) == superStopped(MultiServiceStop(w, i), i)

\* the callbacks of the Deferred of stopService for the request i:
\* MultiService.stopService, then superStopped once its result has fired
StopCallbacks(w, i) ==
    LET w1 == MultiServiceStop(w, i)
    IN  IF w1.reqs[i].state = "depsStopped" THEN superStopped(w1, i) ELSE w1

\* PostgresService.deactivateDelayedShutdown; Deferred.callback raises
\* AlreadyCalledError on a Deferred that has fired before.
deactivateDelayedShutdown(w) ==
    LET w1 == [w EXCEPT !.svc.delayedShutdown = FALSE]
        d == w.svc.shutdownDeferred
    IN  IF d # None
        THEN IF w1.reqs[d].state # "waiting"
             THEN Raise(w1, "AlreadyCalledError")
             ELSE StopCallbacks(w1, d)
        ELSE w1

NewRequest(crit) ==
    [ crit |-> crit, state |-> "waiting", depStops |-> 0, stopSpawns |-> 0 ]

\* a plausible slip: the delayedShutdown flag is not consulted
stopService_noDelay(w) ==
    LET i == Len(w.reqs) + 1
    IN  StopCallbacks(
            [w EXCEPT !.reqs = Append(@, NewRequest(w.svc.delayedShutdown))],
            i)

\* PostgresService.stopService; crit remembers the flag at the call
stopService(w) ==
    LET i == Len(w.reqs) + 1
        w1 == [w EXCEPT !.reqs = Append(@, NewRequest(w.svc.delayedShutdown))]
    IN  IF w.svc.delayedShutdown
        THEN [w1 EXCEPT !.svc.shutdownDeferred = i]
        ELSE StopCallbacks(w1, i)

\* ------------------------------------------------------ SchemaBootstrapper
\* a plausible slip: the import file is used without asking whether it exists
SqlToExecute_noExistsCheck(imp) ==
    IF imp # "none" THEN "import" ELSE "schema"

\* PostgresService.ready, the choice of sqlToExecute
SqlToExecute(imp) ==
    IF imp # "none"
    THEN IF imp = "present" THEN "import" ELSE "schema"
    ELSE "schema"

\* PostgresService.ready, the database part: drop, create, payload
bootstrap(w, k, f, imp) ==
    LET \* if self.resetSchema: drop database, DatabaseError ignored
        w1 == IF config.resetSchema
              THEN Log([w EXCEPT !.world.database = "absent"], "drop")
              ELSE w
        \* create database ... except: executeSQL = False
        executeSQL == w1.world.database = "absent" /\ "create" \notin f
        w2 == IF executeSQL
              THEN Log([w1 EXCEPT !.world.database = "empty"], "create")
              ELSE Log(w1, "createFailed")
        sqlToExecute == SqlToExecute(imp)
        \* if self.importFileName: importFilePath.exists()
        w3 == IF executeSQL /\ imp # "none"
              THEN Log(w2, IF imp = "present" THEN "fileExists"
                           ELSE "fileMissing")
              ELSE w2
        \* if executeSQL: produceConnection, execute, commit, close
    IN  IF ~executeSQL THEN w3
        ELSE IF "conn" \in f
             THEN Raise([w3 EXCEPT !.chain[k].bootFailed = TRUE],
                        "DatabaseError")
        ELSE IF "exec" \in f
             THEN Raise([w3 EXCEPT !.chain[k].bootFailed = TRUE],
                        "DatabaseError")
        ELSE Log([w3 EXCEPT !.world.database = sqlToExecute,
                            !.chain[k].payloads = @ + 1],
                 sqlToExecute)

\* a plausible slip: the subservice is started although a stop is queued
startSubService_unconditional(w, k, f) ==
    LET started == IF w.svc.running THEN "running" ELSE "stopped"
    IN  IF "factory" \in f
        THEN Raise(Log([w EXCEPT !.chain[k].factoryCalls = @ + 1],
                       "factory"),
                   "FactoryError")
        ELSE Log([w EXCEPT !.chain[k].factoryCalls = @ + 1,
                           !.svc.services = Append(@, started)],
                 "factory")

\* PostgresService.ready, the last statement:
\* if self.shutdownDeferred is None: subServiceFactory(...)
startSubService(w, k, f) ==
    LET started == IF w.svc.running THEN "running" ELSE "stopped"
    IN  IF w.svc.shutdownDeferred = None
        THEN IF "factory" \in f
             THEN Raise(Log([w EXCEPT !.chain[k].factoryCalls = @ + 1],
                            "factory"),
                        "FactoryError")
             ELSE Log([w EXCEPT !.chain[k].factoryCalls = @ + 1,
                                !.svc.services = Append(@, started)],
                      "factory")
        ELSE w

\* a plausible slip: the subservice is started before the database work
ready_subServiceFirst(w, k, f, imp) ==
    LET w0 == [w EXCEPT !.chain[k].readyRuns = @ + 1, !.readyLog = <<>>]
        w1 == startSubService(w0, k, f)
    IN  IF Raised(w1) THEN w1 ELSE bootstrap(w1, k, f, imp)

\* PostgresService.ready(createDatabaseConn, createDatabaseCursor) run by
\* the chain k with the faults f and the import file imp
ready(w, k, f, imp) ==
    LET w0 == [w EXCEPT !.chain[k].readyRuns = @ + 1, !.readyLog = <<>>]
        w1 == bootstrap(w0, k, f, imp)
    IN  IF Raised(w1) THEN w1 ELSE startSubService(w1, k, f)

\* ---------------------------------------------------- LifecycleSupervisor
\* startDatabase: a new monitor, pg_ctl start spawned, callbacks attached
startDatabase(w, k) ==
    [spawnProcess(w, k, "start") EXCEPT
        !.chain[k].pc = "starting",
        !.chain[k].monitor = NewMonitor(TRUE)]

\* startDatabase.createConnection
createConnection(w, f) ==
    IF "admin" \in f THEN Raise(w, "DatabaseError") ELSE w

\* startDatabase.gotStatus: result is the pid printed by pg_ctl status
gotStatus(w, k, result, f, imp) ==
    LET w1 == IF result # None
              THEN [w EXCEPT !.svc.postgresPid = result]
              ELSE w
        w2 == createConnection(w1, f)
        w3 == IF Raised(w2) THEN w2 ELSE ready(w2, k, f, imp)
    IN  IF Raised(w3) THEN w3 ELSE deactivateDelayedShutdown(w3)

\* startDatabase.gotReady
gotReady(w, k) ==
    [spawnProcess([w EXCEPT !.svc.shouldStopDatabase = TRUE], k, "status")
        EXCEPT !.chain[k].pc = "probe1"]

\* startDatabase.couldNotStart: the failure is consumed, a probe is spawned
couldNotStart(w, k) ==
    [spawnProcess([w EXCEPT !.raised = "none"], k, "status")
        EXCEPT !.chain[k].pc = "probe2"]

\* a plausible slip: giveUp clears the flag but leaves the reactor running
giveUp_noReactorStop(w, k) ==
    LET w1 == deactivateDelayedShutdown([w EXCEPT !.raised = "none"])
    IN  IF Raised(w1)
        THEN [w1 EXCEPT !.chain[k].pc = "unhandled"]
        ELSE [w1 EXCEPT !.chain[k].pc = "gaveUp"]

\* startDatabase.giveUp
giveUp(w, k) ==
    LET w1 == deactivateDelayedShutdown([w EXCEPT !.raised = "none"])
    IN  IF Raised(w1)
        THEN [w1 EXCEPT !.chain[k].pc = "unhandled"]
        ELSE [w1 EXCEPT !.chain[k].pc = "gaveUp",
                        !.chain[k].reactorStops = @ + 1]

\* startService.doCreate
doCreate(w, k, result) ==
    IF Fatal \in Range(result)
    THEN Raise([w EXCEPT !.chain[k].pc = "initFailed"], "RuntimeError")
    ELSE startDatabase(w, k)

\* MultiService.startService: running, and every child service started
MultiServiceStart(w) ==
    [w EXCEPT !.svc.running = TRUE,
              !.svc.services = [ j \in DOMAIN @ |-> "running" ]]

\* a plausible slip: the start command does not wait for initdb
startService_noWait(w, k) ==
    LET w1 == activateDelayedShutdown(MultiServiceStart(w))
        w2 == [w1 EXCEPT !.chain[k].hadCluster = w.world.clusterDir]
    IN  IF ~w.world.clusterDir
        THEN startDatabase(spawnProcess(w2, k, "initdb"), k)
        ELSE startDatabase(w2, k)

\* PostgresService.startService, the k-th call
startService(w, k) ==
    LET w1 == activateDelayedShutdown(MultiServiceStart(w))
        w2 == [w1 EXCEPT !.chain[k].hadCluster = w.world.clusterDir]
    IN  IF ~w.world.clusterDir
        THEN [spawnProcess(w2, k, "initdb") EXCEPT !.chain[k].pc = "initdb"]
        ELSE startDatabase(w2, k)

\* a plausible slip: os.kill is not wrapped in try/except OSError
hardStop_noTry(w, gone) ==
    LET w1 == [w EXCEPT !.kills.calls = @ + 1, !.kills.raised = FALSE]
    IN  IF w.svc.postgresPid # None
        THEN [w1 EXCEPT !.kills.signals = @ + 1,
                        !.kills.target = w.svc.postgresPid,
                        !.kills.raised = gone]
        ELSE w1

\* a plausible slip: hardStop forgets the process id it has signalled
hardStop_forgetsPid(w, gone) ==
    LET w1 == [w EXCEPT !.kills.calls = @ + 1, !.kills.raised = FALSE]
    IN  IF w.svc.postgresPid # None
        THEN [w1 EXCEPT !.kills.signals = @ + 1,
                        !.kills.target = w.svc.postgresPid,
                        !.svc.postgresPid = None]
        ELSE w1

\* PostgresService.hardStop; gone: the process no longer exists, os.kill
\* raises OSError, which is swallowed
hardStop(w, gone) ==
    LET w1 == [w EXCEPT !.kills.calls = @ + 1, !.kills.raised = FALSE]
    IN  IF w.svc.postgresPid # None
        THEN [w1 EXCEPT !.kills.signals = @ + 1,
                        !.kills.target = w.svc.postgresPid]
        ELSE w1

\* ------------------------------------------------------------------ Init
NewChain ==
    [ pc |-> "idle", monitor |-> NewMonitor(TRUE), chunks |-> 0,
      hadCluster |-> FALSE,
      spawned |-> [initdb |-> 0, start |-> 0, status |-> 0],
      initStatus |-> NoStatus, initFatal |-> FALSE,
      startStatus |-> NoStatus,
      readyRuns |-> 0, payloads |-> 0, factoryCalls |-> 0,
      bootFailed |-> FALSE, reactorStops |-> 0 ]

\* the cluster directory and the database the constructor may find
InitialWorlds ==
    { [clusterDir |-> FALSE, database |-> "absent"],
      [clusterDir |-> TRUE, database |-> "absent"],
      [clusterDir |-> TRUE, database |-> "schema"] }

Init ==
    /\ config \in [ resetSchema : BOOLEAN ]
    /\ svc = [ running |-> FALSE, delayedShutdown |-> FALSE,
               shutdownDeferred |-> None, shouldStopDatabase |-> FALSE,
               postgresPid |-> None, services |-> <<>> ]
    /\ world \in InitialWorlds
    /\ chain = [ k \in Starts |-> NewChain ]
    /\ reqs = <<>>
    /\ readyLog = <<>>
    /\ nStarts = 0
    /\ kills = [calls |-> 0, signals |-> 0, target |-> None, raised |-> FALSE]

\* --------------------------------------------------------------- actions
\* the host starts the service
StartService ==
    /\ nStarts = 0
    /\ nStarts' = 1
    /\ Commit(startService(W, 1))
    /\ UNCHANGED config

\* the host starts the stopped instance again
RestartService ==
    /\ nStarts \in 1..(MaxStarts - 1)
    /\ ~svc.running
    /\ nStarts' = nStarts + 1
    /\ Commit(startService(W, nStarts + 1))
    /\ UNCHANGED config

\* initdb exits: its stdout and stderr were captured, the Deferred fires
InitdbEnded(k) ==
    /\ chain[k].pc = "initdb"
    /\ \E out \in InitTokens, err \in InitTokens, status \in ExitCodes :
          LET p == CaptureErrReceived(
                       CaptureOutReceived(NewCapture, <<out>>), <<err>>)
              result == CaptureProcessEnded(p, status)
              ok == status = 0 /\ Fatal \notin {out, err}
              w1 == [W EXCEPT !.chain[k].initStatus = status,
                              !.chain[k].initFatal = Fatal \in {out, err},
                              !.world.clusterDir = ok]
          IN  Commit(doCreate(w1, k, result))
    /\ UNCHANGED <<config, nStarts>>

\* a chunk of pg_ctl start's stderr arrives at the monitor; an exception
\* of the handler goes to the caller of errReceived
StartErrReceived(k) ==
    /\ chain[k].pc = "starting"
    /\ chain[k].chunks < MaxChunks
    /\ \E err \in StderrChunks :
          chain' = [chain EXCEPT
                       ![k].monitor = [errReceived(@, err)
                                          EXCEPT !.raised = FALSE],
                       ![k].chunks = @ + 1]
    /\ UNCHANGED <<config, svc, world, reqs, readyLog, nStarts, kills>>

\* _PostgresMonitor.processEnded of pg_ctl start: completionDeferred fires
\* and runs gotReady, or skips it and runs couldNotStart
StartEnded(k) ==
    /\ chain[k].pc = "starting"
    /\ \E status \in ExitCodes :
          LET w1 == [W EXCEPT !.chain[k].startStatus = status,
                              !.chain[k].chunks = 0]
          IN  Commit(IF status = 0 THEN gotReady(w1, k)
                     ELSE couldNotStart(w1, k))
    /\ UNCHANGED <<config, nStarts>>

\* pg_ctl status exits: gotStatus runs; its failure goes to the next
\* errback of the chain, couldNotStart after gotReady, giveUp after
\* couldNotStart
StatusEnded(k) ==
    /\ chain[k].pc \in {"probe1", "probe2"}
    /\ \E result \in StatusOutputs, f \in Faults, imp \in ImportFiles :
          LET w1 == gotStatus(W, k, result, f, imp)
          IN  Commit(IF ~Raised(w1) THEN [w1 EXCEPT !.chain[k].pc = "done"]
                     ELSE IF chain[k].pc = "probe1" THEN couldNotStart(w1, k)
                     ELSE giveUp(w1, k))
    /\ UNCHANGED <<config, nStarts>>

\* the host stops the service
StopService ==
    /\ Len(reqs) < MaxStops
    /\ Commit(stopService(W))
    /\ UNCHANGED <<config, nStarts>>

\* the child services have stopped: the result of MultiService.stopService
\* fires and superStopped runs
DepsStopped(i) ==
    /\ reqs[i].state = "stoppingDeps"
    /\ LET stopped == [ j \in DOMAIN svc.services |->
                          IF svc.services[j] = "stopping" THEN "stopped"
                          ELSE svc.services[j] ]
       IN  Commit(superStopped([W EXCEPT !.svc.services = stopped], i))
    /\ UNCHANGED <<config, nStarts>>

\* pg_ctl stop exits: the Deferred stopService returned fires
StopEnded(i) ==
    /\ reqs[i].state = "stoppingEngine"
    /\ \E status \in ExitCodes :
          reqs' = [reqs EXCEPT ![i].state =
                      IF status = 0 THEN "done" ELSE "failed"]
    /\ UNCHANGED <<config, svc, world, chain, readyLog, nStarts, kills>>

Next ==
    \/ StartService
    \/ \E k \in Starts : InitdbEnded(k)
    \/ \E k \in Starts : StartErrReceived(k)
    \/ \E k \in Starts : StartEnded(k)
    \/ \E k \in Starts : StatusEnded(k)
    \/ StopService
    \/ \E i \in DOMAIN reqs : DepsStopped(i)
    \/ \E i \in DOMAIN reqs : StopEnded(i)

Spec == Init /\ [][Next]_vars

\* restarts of the instance, without the stderr traffic of the monitor
NextRestart ==
    \/ StartService
    \/ RestartService
    \/ \E k \in Starts : InitdbEnded(k)
    \/ \E k \in Starts : StartEnded(k)
    \/ \E k \in Starts : StatusEnded(k)
    \/ StopService
    \/ \E i \in DOMAIN reqs : DepsStopped(i)
    \/ \E i \in DOMAIN reqs : StopEnded(i)

SpecRestart == Init /\ [][NextRestart]_vars

\* the host calls hardStop, at any time
HardStop ==
    /\ kills.calls < MaxHardStops
    /\ \E gone \in BOOLEAN : Commit(hardStop(W, gone))
    /\ UNCHANGED <<config, nStarts>>

\* one lifetime of the service with calls of hardStop, without the stderr
\* traffic of the monitor
NextHardStop ==
    \/ StartService
    \/ \E k \in Starts : InitdbEnded(k)
    \/ \E k \in Starts : StartEnded(k)
    \/ \E k \in Starts : StatusEnded(k)
    \/ StopService
    \/ \E i \in DOMAIN reqs : DepsStopped(i)
    \/ \E i \in DOMAIN reqs : StopEnded(i)
    \/ HardStop

SpecHardStop == Init /\ [][NextHardStop]_vars

TypeOK ==
    /\ svc.running \in BOOLEAN
    /\ svc.delayedShutdown \in BOOLEAN
    /\ svc.shutdownDeferred \in {None} \cup DOMAIN reqs
    /\ svc.postgresPid \in StatusOutputs
    /\ Len(reqs) <= MaxStops
    /\ nStarts \in 0..MaxStarts

\* ----------------------------------------------------------------- claims
Waiting(i) == reqs[i].state = "waiting"

Started(k) == k \in 1..nStarts

\* status probes of the chain k that have exited
ProbesEnded(k) ==
    chain[k].spawned.status
        - (IF chain[k].pc \in {"probe1", "probe2"} THEN 1 ELSE 0)

StartupFailed(k) == chain[k].pc \in {"initFailed", "gaveUp", "unhandled"}

\* C1: a stop requested while delayedShutdown is set stays a waiting
\* Deferred, with no dependents stopped and no stop command spawned for it,
\* in every step that leaves the flag set; the step that clears the flag
\* with a waiter registered lets exactly one waiting stop proceed, and no
\* stop request ever stops the dependents or spawns the stop command twice.
DeferredStopWaitsForFlag ==
    [][ /\ \A i \in DOMAIN reqs' :
             (reqs'[i].crit /\ svc.delayedShutdown /\ svc'.delayedShutdown
                 /\ (i \in DOMAIN reqs => Waiting(i)))
             => /\ reqs'[i].state = "waiting"
                /\ reqs'[i].depStops = 0
                /\ reqs'[i].stopSpawns = 0
        /\ \A i \in DOMAIN reqs' :
             reqs'[i].depStops <= 1 /\ reqs'[i].stopSpawns <= 1
        /\ ( /\ svc.delayedShutdown /\ ~svc'.delayedShutdown
             /\ svc.shutdownDeferred # None
             /\ Waiting(svc.shutdownDeferred) )
           => /\ Cardinality({ i \in DOMAIN reqs :
                     Waiting(i) /\ reqs'[i].state # "waiting" }) = 1
              /\ reqs'[svc.shutdownDeferred].depStops = 1
              /\ reqs'[svc.shutdownDeferred].state
                     = IF svc.shouldStopDatabase THEN "stoppingEngine"
                       ELSE "done"
              /\ reqs'[svc.shutdownDeferred].stopSpawns
                     = IF svc.shouldStopDatabase THEN 1 ELSE 0
      ]_vars

\* C1 witness: a stop requested during initialization has run, once, after
\* the flag was cleared, and the stop command it spawned has exited
DeferredStopProceeded ==
    \E i \in DOMAIN reqs :
        /\ reqs[i].crit
        /\ ~svc.delayedShutdown
        /\ reqs[i].state = "done"
        /\ reqs[i].depStops = 1
        /\ reqs[i].stopSpawns = 1

\* C2: once the flag is cleared, every stop requested while it was set has
\* been released (none is left waiting) and together they stopped the
\* dependents once
EveryDeferredStopResolves ==
    ~svc.delayedShutdown
    => /\ \A i \in DOMAIN reqs : reqs[i].crit => ~Waiting(i)
       /\ Cardinality({ i \in DOMAIN reqs :
               reqs[i].crit /\ reqs[i].depStops > 0 }) <= 1

\* C3: after a failed startup no dependent subservice runs and the
\* delayedShutdown flag is cleared
FailedStartupLeavesCleanState ==
    \A k \in Starts :
        StartupFailed(k)
        => /\ ~svc.delayedShutdown
           /\ "running" \notin Range(svc.services)

\* C4: pg_ctl stop is spawned by a stop request only if the start command
\* of this service exited with status zero; after a start command that
\* exited non-zero no stop request spawns it
StopOnlyIfOwnStartSucceeded ==
    \A i \in DOMAIN reqs :
        reqs[i].stopSpawns > 0
        => nStarts >= 1 /\ chain[nStarts].startStatus = 0

\* C4 witness: the start command failed, the service attached to a running
\* postgres, and a later stop request has completed
StoppedAfterAttach ==
    \E i \in DOMAIN reqs :
        /\ chain[1].startStatus = 1
        /\ chain[1].pc = "done"
        /\ ~reqs[i].crit
        /\ reqs[i].state = "done"
        /\ reqs[i].depStops = 1

\* C5: the body of ready() runs only after the start command has exited and
\* once per status probe that has exited; the subservice factory is called
\* only by ready(), as its last effect, after the database was created or
\* found and the payload was executed
BootstrapAfterReadinessBeforeDependents ==
    /\ \A k \in Starts :
          /\ chain[k].readyRuns > 0 => chain[k].startStatus # NoStatus
          /\ chain[k].readyRuns <= ProbesEnded(k)
          /\ chain[k].factoryCalls <= chain[k].readyRuns
    /\ Len(svc.services) > 0 => \E k \in Starts : chain[k].factoryCalls > 0
    /\ \A n \in DOMAIN readyLog :
          readyLog[n] = "factory"
          => /\ n = Len(readyLog)
             /\ \E m \in 1..(n - 1) :
                    readyLog[m] \in {"create", "createFailed"}

\* C5 witness: ready() created the database, executed the schema and then
\* started the subservice
DependentStartedAfterBootstrap ==
    /\ readyLog = <<"create", "schema", "factory">>
    /\ Len(svc.services) = 1
    /\ chain[1].pc = "done"

\* C6: if executing the payload or opening its connection failed after the
\* database was created, no subservice is created in that start
NoDependentAfterFailedBootstrap ==
    \A k \in Starts :
        chain[k].bootFailed
        => chain[k].factoryCalls = 0 /\ svc.services = <<>>

\* C7: without a cluster directory initdb is spawned exactly once and the
\* start command not before initdb has exited; with a cluster directory
\* initdb is never spawned and the start command is spawned at once
ClusterInitOnceBeforeStart ==
    \A k \in Starts :
        Started(k)
        => IF ~chain[k].hadCluster
           THEN /\ chain[k].spawned.initdb = 1
                /\ chain[k].spawned.start <= 1
                /\ chain[k].spawned.start = 1
                       => chain[k].initStatus # NoStatus
           ELSE /\ chain[k].spawned.initdb = 0
                /\ chain[k].spawned.start = 1

\* C7 witness: initdb ran and exited, then the start command was spawned
StartedAfterClusterInit ==
    /\ ~chain[1].hadCluster
    /\ chain[1].initStatus = 0
    /\ chain[1].spawned.initdb = 1
    /\ chain[1].spawned.start = 1

\* C8: after initdb the start command is spawned only if initdb exited with
\* status zero and wrote no fatal marker
StartOnlyAfterSuccessfulInit ==
    \A k \in Starts :
        (chain[k].initStatus # NoStatus /\ chain[k].spawned.start > 0)
        => chain[k].initStatus = 0 /\ ~chain[k].initFatal

\* C9: the monitor of one start command calls the ready handler of the
\* service at most once
AtMostOneReadyNotification ==
    \A k \in Starts : chain[k].monitor.readyCalls <= 1

\* C10: a stop request spawns pg_ctl stop only in a step after which
\* MultiService.stopService of that request has been called and has
\* finished: no child service is running or still stopping
StopCommandAfterDependentsStopped ==
    [][ \A i \in DOMAIN reqs' :
          reqs'[i].stopSpawns > (IF i \in DOMAIN reqs
                                 THEN reqs[i].stopSpawns ELSE 0)
          => /\ reqs'[i].depStops = 1
             /\ reqs'[i].state = "stoppingEngine"
             /\ "stopping" \notin Range(svc'.services)
             /\ "running" \notin Range(svc'.services)
             /\ ~svc'.running
      ]_vars

\* C10 witness: the dependents were stopped and then pg_ctl stop was spawned
StopCommandSpawnedAfterDependents ==
    \E i \in DOMAIN reqs :
        /\ reqs[i].state = "stoppingEngine"
        /\ reqs[i].stopSpawns = 1
        /\ "stopped" \in Range(svc.services)

\* C11: a start command that exited non-zero never makes the service the
\* owner of postgres; when the probe that follows it fails too (no ready()
\* run, or a run that added no subservice although no stop was queued) the
\* chain gives up, and giving up stops the reactor exactly once with no
\* subservice created
FailedStartAndProbeGiveUp ==
    [][ \A k \in Starts :
          chain'[k].startStatus = 1
          => /\ ~svc'.shouldStopDatabase
             /\ ( /\ chain[k].pc = "probe2"
                  /\ chain'[k].pc # "probe2"
                  /\ \/ chain'[k].readyRuns = chain[k].readyRuns
                     \/ /\ svc.shutdownDeferred = None
                        /\ Len(svc'.services) = Len(svc.services) )
                => chain'[k].pc = "gaveUp"
             /\ chain'[k].pc = "gaveUp"
                => /\ chain'[k].reactorStops = 1
                   /\ svc'.services = <<>>
                   /\ ~svc'.delayedShutdown
             /\ chain'[k].pc # "gaveUp" => chain'[k].reactorStops = 0
      ]_vars

\* C11 witness: the start command and the probe failed and the reactor was
\* stopped
GaveUpAfterFailedStartAndProbe ==
    /\ chain[1].startStatus = 1
    /\ chain[1].pc = "gaveUp"
    /\ chain[1].readyRuns = 0
    /\ chain[1].reactorStops = 1

\* C12: within one start ready() runs at most once and at most one payload
\* is executed
BootstrapRunsOnce ==
    \A k \in Starts : chain[k].readyRuns <= 1 /\ chain[k].payloads <= 1

\* C13: within one start the subservice factory is called at most once
FactoryCalledOncePerStart ==
    \A k \in Starts : chain[k].factoryCalls <= 1

\* no process is running and no child service is still stopping
Quiescent ==
    /\ \A k \in Starts :
          chain[k].pc \in {"idle", "initFailed", "done", "gaveUp", "unhandled"}
    /\ \A i \in DOMAIN reqs :
          reqs[i].state \notin {"stoppingDeps", "stoppingEngine"}

\* C14: once every spawned process has exited, every stop request has
\* completed
StopsCompleteWhenProcessesExited ==
    Quiescent => \A i \in DOMAIN reqs : reqs[i].state \in {"done", "failed"}

\* C15: a call of hardStop sends one signal, to the recorded process id,
\* if one is recorded and none otherwise, and does not raise
HardStopSignalsRecordedPidOnce ==
    [][ kills'.calls # kills.calls
        => /\ kills'.calls = kills.calls + 1
           /\ ~kills'.raised
           /\ IF svc.postgresPid # None
              THEN /\ kills'.signals = kills.signals + 1
                   /\ kills'.target = svc.postgresPid
              ELSE /\ kills'.signals = kills.signals
                   /\ kills'.target = kills.target
      ]_vars

\* C15 witness: hardStop was called before a process id was recorded and
\* again after
HardStopWithoutAndWithPid ==
    /\ kills.calls = 2
    /\ kills.signals = 1
    /\ kills.target \in Pids

\* C16: a call of hardStop changes no field of the service, no stop
\* request, no start chain and spawns nothing
HardStopLeavesStateMachineAlone ==
    [][ kills'.calls # kills.calls
        => /\ svc' = svc
           /\ reqs' = reqs
           /\ chain' = chain
           /\ world' = world
           /\ readyLog' = readyLog
           /\ nStarts' = nStarts
      ]_vars

\* C16 witness: hardStop signalled postgres while the initialization was in
\* flight and a stop was queued
HardStopDuringInitialization ==
    /\ kills.signals >= 1
    /\ svc.delayedShutdown
    /\ svc.shutdownDeferred # None
    /\ svc.postgresPid \in Pids

\* C17: after a graceful stop has completed the process id is forgotten: a
\* later hardStop sends no signal
NoSignalAfterGracefulStop ==
    [][ ( /\ kills'.calls # kills.calls
          /\ \E i \in DOMAIN reqs :
                reqs[i].state = "done" /\ reqs[i].stopSpawns > 0 )
        => /\ svc.postgresPid = None
           /\ kills'.signals = kills.signals
      ]_vars

PayloadEntries(L) == { n \in DOMAIN L : L[n] \in {"schema", "import"} }

\* C18: a run of ready() whose "create database" failed executes no
\* payload; a run that created the database and was not cut short by an
\* exception executes exactly one payload, the import file if it is
\* configured and exists and the schema otherwise; a run that returns with
\* no stop queued has started the subservice as its last effect
BootstrapOutcome ==
    [][ \A k \in Starts :
          chain'[k].readyRuns # chain[k].readyRuns
          => LET L == readyLog'
                 returned == chain'[k].pc = "done"
             IN  /\ "createFailed" \in Range(L)
                    => /\ PayloadEntries(L) = {}
                       /\ chain'[k].payloads = chain[k].payloads
                       /\ world'.database =
                              IF config.resetSchema
                              THEN "absent" ELSE world.database
                 /\ ("create" \in Range(L)
                        /\ (returned \/ "factory" \in Range(L)))
                    => /\ Cardinality(PayloadEntries(L)) = 1
                       /\ chain'[k].payloads = chain[k].payloads + 1
                       /\ world'.database =
                              IF "fileExists" \in Range(L)
                              THEN "import" ELSE "schema"
                       /\ \A n \in PayloadEntries(L) :
                              L[n] = world'.database
                 /\ (returned /\ svc.shutdownDeferred = None)
                    => /\ L[Len(L)] = "factory"
                       /\ Len(svc'.services) = Len(svc.services) + 1
      ]_vars

\* C18 witness: the database was created, the import file executed and the
\* subservice started
ImportFileBootstrapped ==
    /\ readyLog = <<"create", "fileExists", "import", "factory">>
    /\ world.database = "import"
    /\ Len(svc.services) = 1

\* C19: while a stop is queued no step calls the subservice factory or adds
\* a child service, so a service with a stop queued during initialization
\* has no child; the step that clears the flag runs the queued stop, which
\* spawns pg_ctl stop exactly if this service started postgres
QueuedStopSkipsDependents ==
    [][ /\ svc.shutdownDeferred # None
           => /\ \A k \in Starts :
                    chain'[k].factoryCalls = chain[k].factoryCalls
              /\ Len(svc'.services) = Len(svc.services)
        /\ (\E i \in DOMAIN reqs' : reqs'[i].crit) => svc'.services = <<>>
        /\ ( /\ svc.delayedShutdown /\ ~svc'.delayedShutdown
             /\ svc.shutdownDeferred # None )
           => /\ reqs'[svc.shutdownDeferred].state # "waiting"
              /\ reqs'[svc.shutdownDeferred].stopSpawns
                     = IF chain'[1].startStatus = 0 THEN 1 ELSE 0
      ]_vars

\* C19 witness: a stop was queued, ready() ran without starting a
\* subservice, and the queued stop spawned pg_ctl stop
QueuedStopRanAfterBootstrap ==
    \E i \in DOMAIN reqs :
        /\ reqs[i].crit
        /\ reqs[i].state = "stoppingEngine"
        /\ chain[1].pc = "done"
        /\ chain[1].readyRuns = 1
        /\ chain[1].factoryCalls = 0
        /\ world.database = "schema"

\* C20: a step in which deactivateDelayedShutdown clears the flag while no
\* waiter is pending is a plain release: it raises nothing, so the chain
\* that called it ends (done, or gaveUp with the reactor stopped), and no
\* stop request changes
ReleaseWithoutWaiterIsNoOp ==
    [][ ( /\ svc.delayedShutdown /\ ~svc'.delayedShutdown
          /\ (svc.shutdownDeferred = None
                 \/ ~Waiting(svc.shutdownDeferred)) )
        => /\ reqs' = reqs
           /\ \A k \in Starts :
                 chain'[k].pc # chain[k].pc
                 => chain'[k].pc \in {"done", "gaveUp"}
      ]_vars

====
